---- MODULE Spec2Model ----
(***************************************************************************)
(* Model of mltrack: the model registry (models.py), the dataset registry  *)
(* (loaders.py) and the pipeline executor (pipelines.py), together with    *)
(* the part of the tracking backend (mlflow) the executor drives: the      *)
(* active experiment, the autolog switch, the recorded runs and the stack  *)
(* of active runs.                                                         *)
(*                                                                         *)
(* The backend is modelled at the interface pipelines.py uses: a run       *)
(* started by `with mlflow.start_run(...)` is ended when the block is left, *)
(* FINISHED on a normal exit and FAILED on an exception; set_experiment,    *)
(* start_run and log_metric may fail.                                       *)
(*                                                                         *)
(* Four specifications share the variables:                                *)
(*   Spec            one invocation of run_pipeline, statement by statement *)
(*   SpecRegistry    one call get_model(name, **kwargs) on the registry    *)
(*   SpecAggregator  one fetch of the recorded runs into the comparison    *)
(*                   table (streamlit/data.py, streamlit/app.py)           *)
(*   SpecMain        one run of the CLI entry point main() (main.py)       *)
(***************************************************************************)
EXTENDS Naturals, Sequences, FiniteSets, TLC

VARIABLES
    MODELS,            \* models.py: the registry dict, in insertion order
    loader_name,       \* pipeline.loader_name
    model_names,       \* pipeline.model_names
    test_size,         \* pipeline.test_size, in percent
    experiment_name,   \* run_pipeline's experiment_name argument
    pc,                \* the statement run_pipeline / train_single_model is at
    i,                 \* position of the for loop in model_names (1-based)
    model,             \* train_single_model's local `model`
    training_time,     \* train_single_model's local `training_time`
    results,           \* run_pipeline's local `results`
    exc,               \* the exception in flight or propagated to the caller
    active_experiment, \* mlflow: the experiment set_experiment bound
    experiments,       \* mlflow: the experiments that exist in the backend
    autolog,           \* mlflow: whether sklearn autologging is enabled
    runs,              \* mlflow: every run started, in start order
    active_run_stack,  \* mlflow: indices into runs of the active runs
    q_pc,              \* registry call: "idle", "call" or "done"
    q_name,            \* registry call: the name argument
    q_kwargs,          \* registry call: the **kwargs argument
    q_result,          \* registry call: what get_model returned or raised
    constructed,       \* registry call: the constructor calls made
    store,             \* aggregator: the backend's experiments with their runs
    a_entry,           \* aggregator: "data" (data.py) or "app" (app.py)
    a_experiment_id,   \* aggregator: fetch_runs' experiment_id, "None" if omitted
    a_pc,              \* aggregator: the statement fetch_runs is at
    a_experiments,     \* aggregator: local `experiments`
    a_e,               \* aggregator: position of `for exp in experiments`
    all_runs,          \* aggregator: local `all_runs`
    a_r,               \* aggregator: position of `for run in all_runs`
    data,              \* aggregator: local `data`, the rows of the table
    m_pc,              \* main: the statement main() is at, "direct" without main
    m_argv_ok,         \* main: whether the command line is one argparse accepts
    m_args,            \* main: the parsed arguments
    m_env,             \* main: the environment variables that are set
    m_exit,            \* main: <<>>, or <<status>> once main() has returned
    m_handler          \* main: the message of the except clause that ran

pipeline_vars == <<loader_name, model_names, test_size, experiment_name, pc, i,
                   model, training_time, results, exc>>
backend_vars == <<active_experiment, experiments, autolog, runs, active_run_stack>>
registry_vars == <<q_pc, q_name, q_kwargs, q_result, constructed>>
aggregator_vars == <<store, a_entry, a_experiment_id, a_pc, a_experiments, a_e,
                     all_runs, a_r, data>>
main_vars == <<m_pc, m_argv_ok, m_args, m_env, m_exit, m_handler>>
vars == <<MODELS, pipeline_vars, backend_vars, registry_vars, aggregator_vars,
          main_vars>>

(***************************************************************************)
(* Bounds of the model.                                                    *)
(***************************************************************************)
MaxModels == 3
MaxDuration == 1

(***************************************************************************)
(* Small helpers.                                                          *)
(***************************************************************************)
EmptyParams == [k \in {} |-> ""]

Range(s) == {s[n] : n \in 1..Len(s)}

NoException == [type |-> "none", msg |-> "", name |-> "", available |-> <<>>]

(***************************************************************************)
(* models.py                                                               *)
(***************************************************************************)

\* The registry literal, lines 12-25.  Values are kept as written in the
\* source, as opaque tokens.
MODELS_literal ==
    << [name |-> "logistic_regression", cls |-> "LogisticRegression",
        default_params |-> [max_iter |-> "200", random_state |-> "42"]],
       [name |-> "random_forest", cls |-> "RandomForestClassifier",
        default_params |-> [n_estimators |-> "100", random_state |-> "42"]],
       [name |-> "svm_rbf", cls |-> "SVC",
        default_params |-> [kernel |-> "rbf", random_state |-> "42"]] >>

\* list(MODELS.keys()): the keys in insertion order.
list_models(M) == [n \in 1..Len(M) |-> M[n].name]

\* `name not in MODELS`
InRegistry(M, name) == \E n \in 1..Len(M) : M[n].name = name

\* MODELS[name]
Lookup(M, name) == M[CHOOSE n \in 1..Len(M) : M[n].name = name]

\* Variant of MergeParams in which the defaults take precedence.
MergeParams_defaults_win(default_params, kwargs) ==
    [k \in DOMAIN default_params \cup DOMAIN kwargs |->
        IF k \in DOMAIN default_params THEN default_params[k] ELSE kwargs[k]]

\* {**default_params, **kwargs}
MergeParams(default_params, kwargs) ==
    [k \in DOMAIN default_params \cup DOMAIN kwargs |->
        IF k \in DOMAIN kwargs THEN kwargs[k] ELSE default_params[k]]

\* The keyword arguments each classifier's constructor accepts, among the
\* keys the model draws overrides from; any other keyword makes the
\* constructor raise TypeError.
AcceptedParams(cls) ==
    CASE cls = "LogisticRegression" -> {"max_iter", "random_state", "C"}
      [] cls = "RandomForestClassifier" -> {"n_estimators", "random_state"}
      [] cls = "SVC" -> {"kernel", "random_state", "C"}

\* model_class(**params)
Construct(cls, params) ==
    IF DOMAIN params \subseteq AcceptedParams(cls)
    THEN [ok |-> TRUE, cls |-> cls, params |-> params,
          methods |-> {"fit", "predict"}, exc |-> NoException]
    ELSE [ok |-> FALSE, cls |-> cls, params |-> params, methods |-> {},
          exc |-> [type |-> "TypeError", msg |-> "unexpected keyword argument",
                   name |-> cls, available |-> <<>>]]

\* get_model(name, **kwargs).  The result records whether an instance was
\* returned (ok), the exception raised otherwise, and the constructor calls
\* made (calls), each with the class and the params it was handed.
\* Variant of get_model whose error message lists no names.
get_model_empty_listing(M, name, kwargs) ==
    IF ~InRegistry(M, name)
    THEN [ok |-> FALSE, cls |-> "", params |-> EmptyParams, methods |-> {},
          exc |-> [type |-> "ValueError", msg |-> "Unknown model",
                   name |-> name, available |-> <<>>],
          calls |-> <<>>]
    ELSE LET entry == Lookup(M, name)
             params == MergeParams(entry.default_params, kwargs)
             inst == Construct(entry.cls, params)
         IN  inst @@ [calls |-> <<[cls |-> entry.cls, params |-> params]>>]

\* get_model as written.
get_model(M, name, kwargs) ==
    IF ~InRegistry(M, name)
    THEN [ok |-> FALSE, cls |-> "", params |-> EmptyParams, methods |-> {},
          exc |-> [type |-> "ValueError", msg |-> "Unknown model",
                   name |-> name, available |-> list_models(M)],
          calls |-> <<>>]
    ELSE LET entry == Lookup(M, name)
             params == MergeParams(entry.default_params, kwargs)
             inst == Construct(entry.cls, params)
         IN  inst @@ [calls |-> <<[cls |-> entry.cls, params |-> params]>>]

(***************************************************************************)
(* loaders.py                                                              *)
(***************************************************************************)

\* The `loaders` dict of get_loader, lines 60-62.
loaders == <<[name |-> "iris", cls |-> "IrisLoader"]>>

\* get_loader(name): the loader instance, or ValueError naming the loaders.
\* Variant of get_loader that falls back to the first loader.
get_loader_any_name(name) ==
    [ok |-> TRUE, cls |-> loaders[1].cls, exc |-> NoException]

\* get_loader as written.
get_loader(name) ==
    IF ~InRegistry(loaders, name)
    THEN [ok |-> FALSE, cls |-> "",
          exc |-> [type |-> "ValueError", msg |-> "Unknown loader",
                   name |-> name, available |-> list_models(loaders)]]
    ELSE [ok |-> TRUE, cls |-> Lookup(loaders, name).cls, exc |-> NoException]

(***************************************************************************)
(* The tracking backend, as pipelines.py drives it.                        *)
(***************************************************************************)

BackendError == [type |-> "Exception", msg |-> "backend unavailable",
                 name |-> "", available |-> <<>>]

\* mlflow.start_run(run_name=...): a new run under the active experiment,
\* pushed on the stack of active runs.
NewRun(run_name) ==
    [run_name |-> run_name, experiment |-> active_experiment,
     status |-> "RUNNING", fitted |-> FALSE, metrics |-> <<>>,
     steps |-> <<"start_run">>]

\* The run the `with` block of train_single_model holds.
CurrentRun == active_run_stack[Len(active_run_stack)]

\* A step of the `with` body, recorded on the run that is active.
Step(name) ==
    [runs EXCEPT ![CurrentRun].steps = Append(@, name)]

\* mlflow.log_metric(key, value) on the active run.
LogTo(rs, key, value, by) ==
    [rs EXCEPT ![CurrentRun].metrics =
        Append(@, [key |-> key, value |-> value, by |-> by])]

\* ActiveRun.__exit__: the run leaves the stack with the given status.
EndRun(status) ==
    /\ runs' = [runs EXCEPT ![CurrentRun].status = status,
                            ![CurrentRun].steps = Append(@, "end_run")]
    /\ active_run_stack' = SubSeq(active_run_stack, 1, Len(active_run_stack) - 1)

OpenRuns == {r \in 1..Len(runs) : runs[r].status = "RUNNING"}

HasMetric(r, key) == \E m \in 1..Len(runs[r].metrics) : runs[r].metrics[m].key = key

(***************************************************************************)
(* Inputs.                                                                 *)
(***************************************************************************)
LoaderNames == {"iris", "wine"}
ModelNames == {"logistic_regression", "random_forest", "svm_rbf", "xgboost"}
TestSizes == {0, 20, 100}
ExperimentNames == {"Default", "Iris Classification"}
Durations == 0..MaxDuration
ModelNameLists == UNION {[1..n -> ModelNames] : n \in 0..MaxModels}

NoModel == [ok |-> FALSE, cls |-> "", params |-> EmptyParams, methods |-> {},
            exc |-> NoException, calls |-> <<>>]

RegistryIdle ==
    /\ q_pc = "idle"
    /\ q_name = ""
    /\ q_kwargs = EmptyParams
    /\ q_result = NoModel
    /\ constructed = <<>>

AggregatorIdle ==
    /\ store = <<>>
    /\ a_entry = "data"
    /\ a_experiment_id = "None"
    /\ a_pc = "idle"
    /\ a_experiments = <<>>
    /\ a_e = 1
    /\ all_runs = <<>>
    /\ a_r = 1
    /\ data = <<>>

NoArgs == [experiment_name |-> "", loader |-> "", models |-> <<>>, test_size |-> 0]

MainIdle ==
    /\ m_pc = "direct"
    /\ m_argv_ok = TRUE
    /\ m_args = NoArgs
    /\ m_env = {}
    /\ m_exit = <<>>
    /\ m_handler = "none"

BackendInit ==
    /\ active_experiment = "(unset)"
    /\ experiments = {}
    /\ autolog = FALSE
    /\ runs = <<>>
    /\ active_run_stack = <<>>

Init ==
    /\ MODELS = MODELS_literal
    /\ loader_name \in LoaderNames
    /\ model_names \in ModelNameLists
    /\ test_size \in TestSizes
    /\ experiment_name \in ExperimentNames
    /\ pc = "set_experiment"
    /\ i = 1
    /\ model = NoModel
    /\ training_time = 0
    /\ results = <<>>
    /\ exc = NoException
    /\ BackendInit
    /\ RegistryIdle
    /\ AggregatorIdle
    /\ MainIdle

(***************************************************************************)
(* pipelines.py: run_pipeline                                              *)
(***************************************************************************)

\* An exception leaves run_pipeline: nothing in it catches and continues.
Raise(e) ==
    /\ pc' = "raised"
    /\ exc' = e

\* line 95: mlflow.set_experiment(experiment_name)
\* Variant that binds the backend's default experiment whatever the argument.
SetExperiment_default ==
    /\ pc = "set_experiment"
    /\ active_experiment' = "Default"
    /\ experiments' = experiments \cup {"Default"}
    /\ pc' = "autolog"
    /\ UNCHANGED <<MODELS, loader_name, model_names, test_size, experiment_name, i,
                   model, training_time, results, exc, autolog, runs,
                   active_run_stack, registry_vars,
                   aggregator_vars, main_vars>>

\* The statement as written; the backend may refuse.
SetExperiment ==
    /\ pc = "set_experiment"
    /\ \/ /\ active_experiment' = experiment_name
          /\ experiments' = experiments \cup {experiment_name}
          /\ pc' = "autolog"
          /\ exc' = exc
       \/ /\ Raise(BackendError)
          /\ UNCHANGED <<active_experiment, experiments>>
    /\ UNCHANGED <<MODELS, loader_name, model_names, test_size, experiment_name, i,
                   model, training_time, results, autolog, runs, active_run_stack,
                   registry_vars,
                   aggregator_vars, main_vars>>

\* Variant in which autologging is not yet enabled when the dataset is loaded.
Autolog_skipped ==
    /\ pc = "autolog"
    /\ pc' = "get_loader"
    /\ UNCHANGED <<MODELS, loader_name, model_names, test_size, experiment_name, i,
                   model, training_time, results, exc, backend_vars, registry_vars,
                   aggregator_vars, main_vars>>

\* line 98: mlflow.sklearn.autolog()
Autolog ==
    /\ pc = "autolog"
    /\ autolog' = TRUE
    /\ pc' = "get_loader"
    /\ UNCHANGED <<MODELS, loader_name, model_names, test_size, experiment_name, i,
                   model, training_time, results, exc, active_experiment,
                   experiments, runs, active_run_stack, registry_vars,
                   aggregator_vars, main_vars>>

\* lines 102-107: get_loader and loader.load(); a ValueError is logged and
\* re-raised.
LoadDataset ==
    /\ pc = "get_loader"
    /\ LET loader == get_loader(loader_name)
       IN  IF loader.ok
           THEN pc' = "split" /\ exc' = exc
           ELSE Raise(loader.exc)
    /\ UNCHANGED <<MODELS, loader_name, model_names, test_size, experiment_name, i,
                   model, training_time, results, backend_vars, registry_vars,
                   aggregator_vars, main_vars>>

\* lines 110-115: train_test_split rejects a float test_size outside (0, 1).
SplitData ==
    /\ pc = "split"
    /\ IF 0 < test_size /\ test_size < 100
       THEN pc' = "loop" /\ exc' = exc
       ELSE Raise([type |-> "ValueError", msg |-> "test_size out of range",
                   name |-> "", available |-> <<>>])
    /\ UNCHANGED <<MODELS, loader_name, model_names, test_size, experiment_name, i,
                   model, training_time, results, backend_vars, registry_vars,
                   aggregator_vars, main_vars>>

\* line 121: the for loop takes the next model name and calls
\* train_single_model.
LoopNext ==
    /\ pc = "loop"
    /\ i <= Len(model_names)
    /\ pc' = "start_run"
    /\ UNCHANGED <<MODELS, loader_name, model_names, test_size, experiment_name, i,
                   model, training_time, results, exc, backend_vars, registry_vars,
                   aggregator_vars, main_vars>>

\* lines 131-134: the loop is exhausted and results is returned.
\* Variant that treats an empty results list as an error.
ReturnResults_rejects_empty ==
    /\ pc = "loop"
    /\ i > Len(model_names)
    /\ IF results = <<>>
       THEN Raise([type |-> "ValueError", msg |-> "no models", name |-> "",
                   available |-> <<>>])
       ELSE pc' = "returned" /\ exc' = exc
    /\ UNCHANGED <<MODELS, loader_name, model_names, test_size, experiment_name, i,
                   model, training_time, results, backend_vars, registry_vars,
                   aggregator_vars, main_vars>>

\* The statements as written.
ReturnResults ==
    /\ pc = "loop"
    /\ i > Len(model_names)
    /\ pc' = "returned"
    /\ UNCHANGED <<MODELS, loader_name, model_names, test_size, experiment_name, i,
                   model, training_time, results, exc, backend_vars, registry_vars,
                   aggregator_vars, main_vars>>

(***************************************************************************)
(* pipelines.py: train_single_model                                        *)
(***************************************************************************)

\* line 53, entering the `with`: mlflow.start_run(run_name=model_name).
\* mlflow refuses to start a run while another is active; the backend may
\* fail; either way the exception leaves train_single_model with no run
\* started.  The locals of the call are fresh.
\* Variant that starts a parent run and a nested run per model.
StartRun_nested ==
    /\ pc = "start_run"
    /\ runs' = runs \o <<NewRun("pipeline"), NewRun(model_names[i])>>
    /\ active_run_stack' = active_run_stack \o <<Len(runs) + 1, Len(runs) + 2>>
    /\ pc' = "get_model"
    /\ model' = NoModel
    /\ training_time' = 0
    /\ UNCHANGED <<MODELS, loader_name, model_names, test_size, experiment_name, i,
                   results, exc, active_experiment, experiments, autolog,
                   registry_vars,
                   aggregator_vars, main_vars>>

\* The statement as written.
StartRun ==
    /\ pc = "start_run"
    /\ \/ /\ active_run_stack = <<>>
          /\ runs' = Append(runs, NewRun(model_names[i]))
          /\ active_run_stack' = Append(active_run_stack, Len(runs) + 1)
          /\ pc' = "get_model"
          /\ exc' = exc
       \/ /\ Raise(BackendError)
          /\ UNCHANGED <<runs, active_run_stack>>
    /\ model' = NoModel
    /\ training_time' = 0
    /\ UNCHANGED <<MODELS, loader_name, model_names, test_size, experiment_name, i,
                   results, active_experiment, experiments, autolog, registry_vars,
                   aggregator_vars, main_vars>>

\* line 57: model = get_model(model_name)
ResolveModel ==
    /\ pc = "get_model"
    /\ LET m == get_model(MODELS, model_names[i], EmptyParams)
       IN  /\ model' = IF m.ok THEN m ELSE model
           /\ IF m.ok
              THEN pc' = "fit" /\ exc' = exc
              ELSE pc' = "exit_exc" /\ exc' = m.exc
    /\ runs' = Step("get_model")
    /\ UNCHANGED <<MODELS, loader_name, model_names, test_size, experiment_name, i,
                   training_time, results, active_experiment, experiments, autolog,
                   active_run_stack, registry_vars,
                   aggregator_vars, main_vars>>

\* lines 60-63: model.fit(X_train, y_train), then the elapsed time.  With
\* autologging on, a fit that returns has logged the training score to the
\* active run.  A fit may raise.
Fit ==
    /\ pc = "fit"
    /\ \/ /\ \E d \in Durations : training_time' = d
          /\ runs' = [(IF autolog
                       THEN LogTo(Step("fit"), "training_score", 1, "autolog")
                       ELSE Step("fit"))
                      EXCEPT ![CurrentRun].fitted = TRUE]
          /\ pc' = "log_metric"
          /\ exc' = exc
       \/ /\ \E t \in {"ValueError", "Exception"} :
                exc' = [type |-> t, msg |-> "fit failed", name |-> model_names[i],
                        available |-> <<>>]
          /\ runs' = Step("fit")
          /\ pc' = "exit_exc"
          /\ training_time' = training_time
    /\ UNCHANGED <<MODELS, loader_name, model_names, test_size, experiment_name, i,
                   model, results, active_experiment, experiments, autolog,
                   active_run_stack, registry_vars,
                   aggregator_vars, main_vars>>

\* Variant that logs training_time twice.
LogMetric_twice ==
    /\ pc = "log_metric"
    /\ runs' = LogTo(LogTo(Step("log_metric"), "training_time", training_time, "core"),
                     "training_time", training_time, "core")
    /\ pc' = "exit_ok"
    /\ UNCHANGED <<MODELS, loader_name, model_names, test_size, experiment_name, i,
                   model, training_time, results, exc, active_experiment, experiments,
                   autolog, active_run_stack, registry_vars, aggregator_vars,
                   main_vars>>

\* line 66: mlflow.log_metric("training_time", training_time)
LogMetric ==
    /\ pc = "log_metric"
    /\ \/ /\ runs' = LogTo(Step("log_metric"), "training_time", training_time, "core")
          /\ pc' = "exit_ok"
          /\ exc' = exc
       \/ /\ runs' = Step("log_metric")
          /\ pc' = "exit_exc"
          /\ exc' = BackendError
    /\ UNCHANGED <<MODELS, loader_name, model_names, test_size, experiment_name, i,
                   model, training_time, results, active_experiment, experiments,
                   autolog, active_run_stack, registry_vars,
                   aggregator_vars, main_vars>>

\* lines 72-75: `return` inside the `with`; the run ends FINISHED.
ExitOk ==
    /\ pc = "exit_ok"
    /\ EndRun("FINISHED")
    /\ pc' = "append"
    /\ UNCHANGED <<MODELS, loader_name, model_names, test_size, experiment_name, i,
                   model, training_time, results, exc, active_experiment,
                   experiments, autolog, registry_vars,
                   aggregator_vars, main_vars>>

\* line 53, leaving the `with` on an exception: the run ends FAILED and the
\* exception propagates through train_single_model and run_pipeline.
\* Variant without the scoped exit: the exception leaves the run open.
ExitExc_leaves_open ==
    /\ pc = "exit_exc"
    /\ pc' = "raised"
    /\ UNCHANGED <<MODELS, loader_name, model_names, test_size, experiment_name, i,
                   model, training_time, results, exc, backend_vars, registry_vars,
                   aggregator_vars, main_vars>>

\* Variant that ends the run FINISHED although an exception is in flight.
ExitExc_marks_finished ==
    /\ pc = "exit_exc"
    /\ EndRun("FINISHED")
    /\ pc' = "raised"
    /\ UNCHANGED <<MODELS, loader_name, model_names, test_size, experiment_name, i,
                   model, training_time, results, exc, active_experiment,
                   experiments, autolog, registry_vars,
                   aggregator_vars, main_vars>>

\* Variant that deletes the failed run before the exception propagates.
ExitExc_deletes_run ==
    /\ pc = "exit_exc"
    /\ runs' = SubSeq(runs, 1, Len(runs) - 1)
    /\ active_run_stack' = SubSeq(active_run_stack, 1, Len(active_run_stack) - 1)
    /\ pc' = "raised"
    /\ UNCHANGED <<MODELS, loader_name, model_names, test_size, experiment_name, i,
                   model, training_time, results, exc, active_experiment,
                   experiments, autolog, registry_vars, aggregator_vars, main_vars>>

\* Variant that swallows the exception and goes on with the next model.
ExitExc_continues ==
    /\ pc = "exit_exc"
    /\ EndRun("FAILED")
    /\ pc' = "loop"
    /\ i' = i + 1
    /\ UNCHANGED <<MODELS, loader_name, model_names, test_size, experiment_name,
                   model, training_time, results, exc, active_experiment,
                   experiments, autolog, registry_vars,
                   aggregator_vars, main_vars>>

\* The exit as written.
ExitExc ==
    /\ pc = "exit_exc"
    /\ EndRun("FAILED")
    /\ pc' = "raised"
    /\ UNCHANGED <<MODELS, loader_name, model_names, test_size, experiment_name, i,
                   model, training_time, results, exc, active_experiment,
                   experiments, autolog, registry_vars,
                   aggregator_vars, main_vars>>

\* line 129: results.append(result), and the loop moves on.
\* Variant that appends a result only for a model name not yet in results.
AppendResult_dedup ==
    /\ pc = "append"
    /\ results' = IF \E n \in 1..Len(results) : results[n].model_name = model_names[i]
                  THEN results
                  ELSE Append(results, [model_name |-> model_names[i],
                                        training_time |-> training_time])
    /\ i' = i + 1
    /\ pc' = "loop"
    /\ UNCHANGED <<MODELS, loader_name, model_names, test_size, experiment_name,
                   model, training_time, exc, backend_vars, registry_vars,
                   aggregator_vars, main_vars>>

\* The statement as written.
AppendResult ==
    /\ pc = "append"
    /\ results' = Append(results, [model_name |-> model_names[i],
                                   training_time |-> training_time])
    /\ i' = i + 1
    /\ pc' = "loop"
    /\ UNCHANGED <<MODELS, loader_name, model_names, test_size, experiment_name,
                   model, training_time, exc, backend_vars, registry_vars,
                   aggregator_vars, main_vars>>

Next ==
    \/ SetExperiment
    \/ Autolog
    \/ LoadDataset
    \/ SplitData
    \/ LoopNext
    \/ ReturnResults
    \/ StartRun
    \/ ResolveModel
    \/ Fit
    \/ LogMetric
    \/ ExitOk
    \/ ExitExc
    \/ AppendResult

Spec == Init /\ [][Next]_vars

(***************************************************************************)
(* The registry on its own: calls get_model(name, **kwargs).               *)
(***************************************************************************)
OverrideKeys == {"n_estimators", "random_state", "kernel", "C"}
OverrideValues == {"42", "50", "linear"}
OverrideMaps == UNION {[K -> OverrideValues] : K \in SUBSET OverrideKeys}

InitRegistry ==
    /\ MODELS = MODELS_literal
    /\ loader_name = "iris"
    /\ model_names = <<>>
    /\ test_size = 20
    /\ experiment_name = "Default"
    /\ pc = "idle"
    /\ i = 1
    /\ model = NoModel
    /\ training_time = 0
    /\ results = <<>>
    /\ exc = NoException
    /\ BackendInit
    /\ q_pc = "call"
    /\ q_name \in ModelNames
    /\ q_kwargs \in OverrideMaps
    /\ q_result = NoModel
    /\ constructed = <<>>
    /\ AggregatorIdle
    /\ MainIdle

\* models.py lines 45-53, one call.
CallGetModel ==
    /\ q_pc = "call"
    /\ q_result' = get_model(MODELS, q_name, q_kwargs)
    /\ constructed' = q_result'.calls
    /\ q_pc' = "done"
    /\ UNCHANGED <<MODELS, q_name, q_kwargs, pipeline_vars, backend_vars,
                   aggregator_vars, main_vars>>

\* The caller makes another call.
NextCall ==
    /\ q_pc = "done"
    /\ q_name' \in ModelNames
    /\ q_kwargs' \in OverrideMaps
    /\ q_result' = NoModel
    /\ constructed' = <<>>
    /\ q_pc' = "call"
    /\ UNCHANGED <<MODELS, pipeline_vars, backend_vars, aggregator_vars, main_vars>>

NextRegistry ==
    \/ CallGetModel
    \/ NextCall

SpecRegistry == InitRegistry /\ [][NextRegistry]_vars

(***************************************************************************)
(* streamlit/data.py and streamlit/app.py: the run aggregator              *)
(***************************************************************************)
MaxExperiments == 2
MaxRunsPerExperiment == 2

\* run.info.run_id[:8]
IdPrefixLen == 8

\* Strings that the code slices are sequences of characters.
Digits == <<"1", "2", "3", "4", "5">>
ExpId(e) == Digits[e]
RunId(e, r) == <<"r", Digits[e], Digits[r], "a", "b", "c", "d", "e", "f", "0">>

\* What a run can hold: a name or none, metrics and params under the keys
\* the table reads and under keys it does not read.
RunNames == {<<>>, <<"s", "v", "m", "_", "r", "b", "f">>}
MetricKeys == {"training_score", "accuracy", "training_f1_score", "training_time",
               "training_log_loss"}
MetricValues(k) ==
    CASE k = "training_score" -> {0, 91}
      [] k = "accuracy" -> {85}
      [] k = "training_f1_score" -> {80}
      [] k = "training_time" -> {3}
      [] k = "training_log_loss" -> {1}
MetricMaps ==
    UNION {{m \in [K -> {0, 1, 3, 80, 85, 91}] : \A k \in K : m[k] \in MetricValues(k)} :
           K \in SUBSET MetricKeys}
ParamMaps == UNION {[K -> {"SVC"}] : K \in SUBSET {"model_type", "kernel"}}
RunContents == [run_name : RunNames, metrics : MetricMaps, params : ParamMaps]

CompleteRun ==
    [run_name |-> <<"s", "v", "m", "_", "r", "b", "f">>,
     metrics |-> [training_score |-> 91, training_f1_score |-> 80, training_time |-> 3],
     params |-> [model_type |-> "SVC"]]
BareRun == [run_name |-> <<>>, metrics |-> [k \in {} |-> 0], params |-> [k \in {} |-> ""]]
RunKinds == {CompleteRun, BareRun}

\* A run of the backend: run.info and run.data.
MakeRun(e, r, c) ==
    [run_id |-> RunId(e, r), experiment_id |-> ExpId(e), run_name |-> c.run_name,
     start_time |-> (10 * e + r) * 1500, metrics |-> c.metrics, params |-> c.params]

\* The backend's content: experiments in enumeration order, each with its
\* runs in the order search_runs returns them.  Either several experiments
\* whose runs are complete or bare, or one run of any content.
KindLists == UNION {[1..c -> RunKinds] : c \in 0..MaxRunsPerExperiment}
StoreShapes == UNION {[1..ne -> KindLists] : ne \in 0..MaxExperiments}
StoreOf(shape) ==
    [e \in 1..Len(shape) |->
        [experiment_id |-> ExpId(e),
         runs |-> [r \in 1..Len(shape[e]) |-> MakeRun(e, r, shape[e][r])]]]
Stores ==
    {StoreOf(shape) : shape \in StoreShapes}
    \cup {<<[experiment_id |-> ExpId(1), runs |-> <<MakeRun(1, 1, c)>>]>> :
          c \in RunContents}

ExperimentIdArgs == {"None"} \cup {ExpId(e) : e \in 1..(MaxExperiments + 1)}

\* client.search_experiments()
search_experiments == store

\* client.search_runs(experiment_ids=[experiment_id])
search_runs(experiment_id) ==
    LET es == SelectSeq(store, LAMBDA x : x.experiment_id = experiment_id)
    IN  IF es = <<>> THEN <<>> ELSE es[1].runs

\* dict.get(key, default)
Get(d, key, default) == IF key \in DOMAIN d THEN d[key] ELSE default

\* s[:n]
Prefix(s, n) == SubSeq(s, 1, IF Len(s) < n THEN Len(s) ELSE n)

\* pd.to_datetime(start_time, unit="ms")
to_datetime(ms) == [seconds |-> ms \div 1000, millis |-> ms % 1000]

\* Variant of RunName that falls back to the whole run id.
RunName_whole_id(run) ==
    IF run.run_name # <<>> THEN run.run_name ELSE run.run_id

\* run.info.run_name or run.info.run_id[:8]
RunName(run) ==
    IF run.run_name # <<>> THEN run.run_name ELSE Prefix(run.run_id, IdPrefixLen)

\* Variant of Accuracy that prefers the "accuracy" key.
Accuracy_prefers_accuracy(metrics) ==
    Get(metrics, "accuracy", Get(metrics, "training_score", 0))

\* metrics.get("training_score", metrics.get("accuracy", 0))
Accuracy(metrics) ==
    Get(metrics, "training_score", Get(metrics, "accuracy", 0))

\* The dict appended to `data`, data.py lines 53-61, app.py lines 55-63.
Row(run) ==
    [run_name |-> RunName(run),
     model_type |-> Get(run.params, "model_type", "Unknown"),
     accuracy |-> Accuracy(run.metrics),
     f1_score |-> Get(run.metrics, "training_f1_score", 0),
     training_time |-> Get(run.metrics, "training_time", 0),
     run_id |-> run.run_id,
     start_time |-> to_datetime(run.start_time)]

PipelineIdle ==
    /\ MODELS = MODELS_literal
    /\ loader_name = "iris"
    /\ model_names = <<>>
    /\ test_size = 20
    /\ experiment_name = "Default"
    /\ pc = "idle"
    /\ i = 1
    /\ model = NoModel
    /\ training_time = 0
    /\ results = <<>>
    /\ exc = NoException
    /\ BackendInit

InitAggregator ==
    /\ PipelineIdle
    /\ RegistryIdle
    /\ MainIdle
    /\ store \in Stores
    /\ a_entry \in {"data", "app"}
    /\ a_experiment_id \in ExperimentIdArgs
    /\ a_entry = "app" => a_experiment_id = "None"
    /\ a_pc = "start"
    /\ a_experiments = <<>>
    /\ a_e = 1
    /\ all_runs = <<>>
    /\ a_r = 1
    /\ data = <<>>

aggregator_frame == <<MODELS, pipeline_vars, backend_vars, registry_vars, main_vars,
                      store, a_entry, a_experiment_id>>

\* data.py lines 37-40, app.py lines 38-40: experiment_id is None.
SearchExperiments ==
    /\ a_pc = "start"
    /\ a_experiment_id = "None"
    /\ a_experiments' = search_experiments
    /\ a_pc' = "fetch_loop"
    /\ UNCHANGED <<aggregator_frame, a_e, all_runs, a_r, data>>

\* Variant of FetchNext that keeps only the runs of the experiment at hand.
FetchNext_replaces ==
    /\ a_pc = "fetch_loop"
    /\ a_e <= Len(a_experiments)
    /\ all_runs' = search_runs(a_experiments[a_e].experiment_id)
    /\ a_e' = a_e + 1
    /\ UNCHANGED <<aggregator_frame, a_pc, a_experiments, a_r, data>>

\* data.py lines 41-43, app.py lines 41-43: all_runs.extend(runs)
FetchNext ==
    /\ a_pc = "fetch_loop"
    /\ a_e <= Len(a_experiments)
    /\ all_runs' = all_runs \o search_runs(a_experiments[a_e].experiment_id)
    /\ a_e' = a_e + 1
    /\ UNCHANGED <<aggregator_frame, a_pc, a_experiments, a_r, data>>

\* The loop over the experiments is exhausted.  app.py lines 70-73 stop the
\* page when there is no run.
FetchDone ==
    /\ a_pc = "fetch_loop"
    /\ a_e > Len(a_experiments)
    /\ a_pc' = IF a_entry = "app" /\ all_runs = <<>> THEN "stopped" ELSE "parse_loop"
    /\ UNCHANGED <<aggregator_frame, a_experiments, a_e, all_runs, a_r, data>>

\* data.py line 45: one experiment is asked for.
FetchOne ==
    /\ a_pc = "start"
    /\ a_experiment_id # "None"
    /\ all_runs' = search_runs(a_experiment_id)
    /\ a_pc' = "parse_loop"
    /\ UNCHANGED <<aggregator_frame, a_experiments, a_e, a_r, data>>

\* Variant of ParseNext that leaves out a run without an accuracy value.
ParseNext_drops_unscored ==
    /\ a_pc = "parse_loop"
    /\ a_r <= Len(all_runs)
    /\ data' = IF DOMAIN all_runs[a_r].metrics \cap {"training_score", "accuracy"} = {}
               THEN data
               ELSE Append(data, Row(all_runs[a_r]))
    /\ a_r' = a_r + 1
    /\ UNCHANGED <<aggregator_frame, a_pc, a_experiments, a_e, all_runs>>

\* data.py lines 49-62, app.py lines 51-64: one row per run.
ParseNext ==
    /\ a_pc = "parse_loop"
    /\ a_r <= Len(all_runs)
    /\ data' = Append(data, Row(all_runs[a_r]))
    /\ a_r' = a_r + 1
    /\ UNCHANGED <<aggregator_frame, a_pc, a_experiments, a_e, all_runs>>

\* data.py line 64, app.py line 65: pd.DataFrame(data)
ReturnTable ==
    /\ a_pc = "parse_loop"
    /\ a_r > Len(all_runs)
    /\ a_pc' = "done"
    /\ UNCHANGED <<aggregator_frame, a_experiments, a_e, all_runs, a_r, data>>

NextAggregator ==
    \/ SearchExperiments
    \/ FetchNext
    \/ FetchDone
    \/ FetchOne
    \/ ParseNext
    \/ ReturnTable

SpecAggregator == InitAggregator /\ [][NextAggregator]_vars

(***************************************************************************)
(* main.py: the CLI entry point, with config.py's setup_mlflow             *)
(***************************************************************************)

\* config.py lines 65-75: the variables from_env requires, in the order it
\* checks them.
RequiredEnv == <<"MLFLOW_TRACKING_URI", "S3_BUCKET_MLFLOW", "S3_BUCKET_DATA">>

\* MLtrackConfig.from_env(): ValueError naming the first required variable
\* that is unset or empty.
from_env(env) ==
    LET missing == {n \in 1..Len(RequiredEnv) : RequiredEnv[n] \notin env}
    IN  IF missing = {}
        THEN [ok |-> TRUE, exc |-> NoException]
        ELSE [ok |-> FALSE,
              exc |-> [type |-> "ValueError",
                       msg |-> "environment variable is required",
                       name |-> RequiredEnv[CHOOSE n \in missing :
                                               \A k \in missing : n <= k],
                       available |-> <<>>]]

\* What parse_args can return: --models absent (None) is the empty list;
\* nargs="+" never yields an empty list itself.
ArgSets == [experiment_name : ExperimentNames, loader : LoaderNames,
            models : ModelNameLists, test_size : TestSizes]

\* Python's exception classes: which ones `except Exception` catches.
IsException(type) == type \in {"Exception", "ValueError", "TypeError"}

InitMain ==
    /\ PipelineIdle
    /\ RegistryIdle
    /\ AggregatorIdle
    /\ m_pc = "parse_args"
    /\ m_argv_ok \in BOOLEAN
    /\ m_args = NoArgs
    /\ m_env \in SUBSET Range(RequiredEnv)
    /\ m_exit = <<>>
    /\ m_handler = "none"

main_frame == <<MODELS, backend_vars, registry_vars, aggregator_vars, m_argv_ok, m_env>>

\* main.py line 81, parse_args lines 30-70: argparse ends the process with
\* SystemExit on a command line it rejects (and on --help).
ParseArgs ==
    /\ m_pc = "parse_args"
    /\ IF m_argv_ok
       THEN /\ \E a \in ArgSets : m_args' = a
            /\ m_pc' = "setup_mlflow"
            /\ exc' = exc
       ELSE /\ m_args' = m_args
            /\ m_pc' = "escaped"
            /\ exc' = [type |-> "SystemExit", msg |-> "usage", name |-> "",
                       available |-> <<>>]
    /\ UNCHANGED <<main_frame, loader_name, model_names, test_size, experiment_name,
                   pc, i, model, training_time, results, m_exit, m_handler>>

\* main.py lines 84-85, config.py lines 96-100: setup_mlflow()
SetupMlflow ==
    /\ m_pc = "setup_mlflow"
    /\ LET config == from_env(m_env)
       IN  IF config.ok
           THEN m_pc' = "model_names" /\ exc' = exc
           ELSE m_pc' = "except" /\ exc' = config.exc
    /\ UNCHANGED <<main_frame, loader_name, model_names, test_size, experiment_name,
                   pc, i, model, training_time, results, m_args, m_exit, m_handler>>

\* main.py lines 88-101: the model names, the TrainingPipeline and the call
\* of run_pipeline.
CallRunPipeline ==
    /\ m_pc = "model_names"
    /\ model_names' = IF m_args.models # <<>> THEN m_args.models ELSE list_models(MODELS)
    /\ loader_name' = m_args.loader
    /\ test_size' = m_args.test_size
    /\ experiment_name' = m_args.experiment_name
    /\ pc' = "set_experiment"
    /\ m_pc' = "run_pipeline"
    /\ UNCHANGED <<main_frame, i, model, training_time, results, exc, m_args, m_exit,
                   m_handler>>

\* An exception has reached main's try block.
Pending == m_pc = "except" \/ (m_pc = "run_pipeline" /\ pc = "raised")

\* main.py lines 104-110: the summary and `return 0`.
MainReturn ==
    /\ m_pc = "run_pipeline"
    /\ pc = "returned"
    /\ m_exit' = <<0>>
    /\ m_pc' = "returned"
    /\ UNCHANGED <<main_frame, pipeline_vars, m_args, m_handler>>

\* Variant of ExceptValueError that logs and re-raises.
ExceptValueError_reraises ==
    /\ Pending
    /\ exc.type = "ValueError"
    /\ m_handler' = "Configuration error"
    /\ m_pc' = "escaped"
    /\ UNCHANGED <<main_frame, pipeline_vars, m_args, m_exit>>

\* main.py lines 112-115: except ValueError
ExceptValueError ==
    /\ Pending
    /\ exc.type = "ValueError"
    /\ m_handler' = "Configuration error"
    /\ m_exit' = <<1>>
    /\ m_pc' = "returned"
    /\ UNCHANGED <<main_frame, pipeline_vars, m_args>>

\* main.py lines 117-120: except Exception
ExceptException ==
    /\ Pending
    /\ exc.type # "ValueError"
    /\ IsException(exc.type)
    /\ m_handler' = "Training failed"
    /\ m_exit' = <<1>>
    /\ m_pc' = "returned"
    /\ UNCHANGED <<main_frame, pipeline_vars, m_args>>

NextMain ==
    \/ ParseArgs
    \/ SetupMlflow
    \/ CallRunPipeline
    \/ MainReturn
    \/ ExceptValueError
    \/ ExceptException
    \/ Next

SpecMain == InitMain /\ [][NextMain]_vars

(***************************************************************************)
(* Properties.                                                             *)
(***************************************************************************)

\* Where run_pipeline has ended.
Ended == pc \in {"returned", "raised"}

\* The statements inside the `with` block of train_single_model.
InSession == pc \in {"get_model", "fit", "log_metric", "exit_ok", "exit_exc"}

\* The run has everything a successful training records itself.
FullyRecorded(r) == runs[r].fitted /\ HasMetric(r, "training_time")

RegisteredModels == {MODELS_literal[n].name : n \in 1..Len(MODELS_literal)}

\* C1: whenever control is outside the `with` block of train_single_model
\* (it returned, it propagated an exception from get_model, fit or
\* log_metric, or run_pipeline ended), no tracking session is open.
C1_SessionClosedOnEveryExit ==
    ~InSession => (OpenRuns = {} /\ active_run_stack = <<>>)

\* C1 witness: run_pipeline raised out of a session whose fit had completed
\* (log_metric raised), after an earlier session ended normally.
C1_Witness ==
    /\ pc = "raised"
    /\ Len(runs) = 2
    /\ runs[1].status = "FINISHED"
    /\ runs[2].status = "FAILED"
    /\ runs[2].fitted

\* C2: at most one session is open in every state, it is the one started
\* last (every earlier one is closed), and every session resolves at most one
\* model.
C2_AtMostOneOpenSession ==
    /\ Cardinality(OpenRuns) <= 1
    /\ Len(active_run_stack) <= 1
    /\ \A r \in OpenRuns : r = Len(runs) /\ active_run_stack = <<r>>
    /\ \A r \in 1..Len(runs) :
          Cardinality({n \in 1..Len(runs[r].steps) : runs[r].steps[n] = "get_model"}) <= 1

\* C2 witness: the third model's session is open, the first two are closed.
C2_Witness ==
    /\ Len(runs) = 3
    /\ runs[3].status = "RUNNING"
    /\ runs[1].status = "FINISHED"
    /\ runs[2].status = "FINISHED"

\* C3 as claimed: when run_pipeline has ended, every session that was opened
\* is fully recorded (fit completed, training_time logged).
C3_NoHalfWrittenRun ==
    Ended => \A r \in 1..Len(runs) : FullyRecorded(r)

\* C3 as amended: when run_pipeline has ended, every session opened is
\* closed; a session that ended FINISHED is fully recorded; a model whose
\* processing failed does have a session, the last one, which ended FAILED
\* and carries no training_time metric.
C3_FailedRunIsLastAndMarked ==
    Ended =>
        /\ \A r \in 1..Len(runs) :
              /\ runs[r].status \in {"FINISHED", "FAILED"}
              /\ runs[r].status = "FINISHED" <=> FullyRecorded(r)
              /\ runs[r].status = "FAILED" =>
                    /\ r = Len(runs)
                    /\ ~HasMetric(r, "training_time")
                    /\ pc = "raised"
        /\ (pc = "raised" /\ exc.msg \in {"Unknown model", "fit failed"}) =>
              /\ runs # <<>>
              /\ runs[Len(runs)].run_name = model_names[i]
              /\ runs[Len(runs)].status = "FAILED"

\* C3 witness: an unknown model name at the second position left a FAILED
\* session behind a FINISHED one.
C3_Witness ==
    /\ pc = "raised"
    /\ Len(runs) = 2
    /\ runs[1].status = "FINISHED"
    /\ runs[2].status = "FAILED"
    /\ ~runs[2].fitted
    /\ model_names[2] = "xgboost"
    /\ exc.msg = "Unknown model"

\* C4: a failure inside a model's session is fatal: the failed session is
\* the last session there is, the exception is on its way to the caller or
\* has reached it, nothing is appended for the failed model, and results is
\* returned only when no session failed.
C4_FailureIsFatal ==
    /\ pc = "exit_exc" =>
          /\ exc.type # "none"
          /\ CurrentRun = Len(runs)
          /\ Len(runs) = i
          /\ Len(results) = i - 1
    /\ \A r \in 1..Len(runs) :
          runs[r].status = "FAILED" =>
              /\ pc = "raised"
              /\ exc.type # "none"
              /\ r = Len(runs)
              /\ r = i
              /\ Len(results) = r - 1
    /\ pc = "returned" =>
          /\ exc.type = "none"
          /\ \A r \in 1..Len(runs) : runs[r].status = "FINISHED"

\* C4 witness: the fit of the first of three models raised; the pipeline
\* ended with one session and no result.
C4_Witness ==
    /\ pc = "raised"
    /\ Len(model_names) = 3
    /\ Len(runs) = 1
    /\ runs[1].status = "FAILED"
    /\ exc.msg = "fit failed"
    /\ results = <<>>

\* C5: with a loader_name that is not registered, no session is ever opened,
\* no model is resolved or fitted, no metric is logged, control never gets
\* past get_loader, and once get_loader has been reached the exception that
\* ends run_pipeline is the ValueError naming the available loaders.
C5_UnknownDatasetAbortsBeforeModels ==
    loader_name # "iris" =>
        /\ runs = <<>>
        /\ results = <<>>
        /\ model = NoModel
        /\ pc \in {"set_experiment", "autolog", "get_loader", "raised"}
        /\ (pc = "raised" /\ autolog) =>
              exc = [type |-> "ValueError", msg |-> "Unknown loader",
                     name |-> loader_name, available |-> <<"iris">>]

\* C5 witness: the unknown loader was looked up, with models to train.
C5_Witness ==
    /\ loader_name = "wine"
    /\ Len(model_names) = 3
    /\ pc = "raised"
    /\ exc.msg = "Unknown loader"

\* C6: with a registered dataset, a valid test fraction and no model names,
\* no session is ever opened and, once the experiment is bound, run_pipeline
\* does not raise: it returns the empty result sequence.
C6_EmptyModelNames ==
    (model_names = <<>> /\ loader_name = "iris" /\ 0 < test_size /\ test_size < 100) =>
        /\ runs = <<>>
        /\ ~InSession
        /\ pc # "start_run"
        /\ pc = "raised" => ~autolog
        /\ pc = "returned" => results = <<>>

\* C6 witness: run_pipeline returned for an empty list of model names.
C6_Witness ==
    /\ model_names = <<>>
    /\ pc = "returned"
    /\ exc.type = "none"

\* C7: sessions are opened in the order of model_names, each named after its
\* model; when run_pipeline returns there is one session and one result per
\* position of model_names, duplicates included.
C7_OneResultAndSessionPerModel ==
    /\ Len(runs) <= Len(model_names)
    /\ \A r \in 1..Len(runs) : runs[r].run_name = model_names[r]
    /\ \A n \in 1..Len(results) : results[n].model_name = model_names[n]
    /\ pc = "returned" =>
          /\ Len(results) = Len(model_names)
          /\ Len(runs) = Len(model_names)

\* C7 witness: three models, the first two the same, all trained.
C7_Witness ==
    /\ pc = "returned"
    /\ Len(model_names) = 3
    /\ model_names[1] = model_names[2]
    /\ Len(results) = 3

\* C8: from the statement after set_experiment on, the backend's active
\* experiment is experiment_name; no session exists before that, and every
\* session was started under experiment_name.
C8_RunsGroupedUnderExperiment ==
    /\ (pc = "autolog" \/ autolog) => active_experiment = experiment_name
    /\ runs # <<>> => autolog
    /\ \A r \in 1..Len(runs) : runs[r].experiment = experiment_name

\* C8 witness: two sessions were started under a non-default experiment.
C8_Witness ==
    /\ experiment_name = "Iris Classification"
    /\ Len(runs) = 2
    /\ runs[2].experiment = "Iris Classification"

\* C9: get_model(name) for a registered name returns an instance of the
\* registered class exposing fit and predict, without raising; for a name
\* that is not registered it raises ValueError listing the registered names
\* in registry order, and no constructor is called.
C9_GetModelResolvesOrListsNames ==
    q_pc = "done" =>
        /\ (q_name \in RegisteredModels /\ q_kwargs = EmptyParams) =>
              /\ q_result.ok
              /\ q_result.exc.type = "none"
              /\ {"fit", "predict"} \subseteq q_result.methods
              /\ \E n \in 1..Len(MODELS_literal) :
                    /\ MODELS_literal[n].name = q_name
                    /\ MODELS_literal[n].cls = q_result.cls
        /\ q_name \notin RegisteredModels =>
              /\ ~q_result.ok
              /\ q_result.exc.type = "ValueError"
              /\ q_result.exc.name = q_name
              /\ q_result.exc.available =
                    <<"logistic_regression", "random_forest", "svm_rbf">>
              /\ constructed = <<>>

\* C9 witness: an unregistered name was looked up, with overrides.
C9_Witness ==
    /\ q_pc = "done"
    /\ q_name = "xgboost"
    /\ q_kwargs # EmptyParams
    /\ q_result.exc.type = "ValueError"

\* C10: for a registered name the constructor is called once, with the
\* defaults overridden key by key: an overridden key has the caller's value,
\* any other default key its default, keys absent from the defaults are
\* passed through; the instance returned carries those params and the
\* registry is as it was.
C10_OverridesAppliedKeyByKey ==
    (q_pc = "done" /\ q_name \in RegisteredModels) =>
        LET defaults ==
                MODELS_literal[CHOOSE n \in 1..Len(MODELS_literal) :
                                   MODELS_literal[n].name = q_name].default_params
        IN  /\ Len(constructed) = 1
            /\ DOMAIN constructed[1].params = DOMAIN defaults \cup DOMAIN q_kwargs
            /\ \A k \in DOMAIN q_kwargs : constructed[1].params[k] = q_kwargs[k]
            /\ \A k \in DOMAIN defaults \ DOMAIN q_kwargs :
                  constructed[1].params[k] = defaults[k]
            /\ q_result.ok => q_result.params = constructed[1].params
            /\ MODELS = MODELS_literal

\* C10 witness: random_forest with n_estimators overridden and an extra key
\* the defaults do not have; random_state keeps its default.
C10_Witness ==
    /\ q_pc = "done"
    /\ q_name = "random_forest"
    /\ DOMAIN q_kwargs = {"n_estimators", "C"}
    /\ q_kwargs["n_estimators"] = "50"
    /\ constructed[1].params["n_estimators"] = "50"
    /\ constructed[1].params["random_state"] = "42"
    /\ constructed[1].params["C"] = q_kwargs["C"]

\* The runs of the experiments from position e on, in enumeration order.
RECURSIVE RunsFrom(_)
RunsFrom(e) == IF e > Len(store) THEN <<>> ELSE store[e].runs \o RunsFrom(e + 1)

\* The statements after the runs have been fetched.
Fetched == a_pc \in {"parse_loop", "done", "stopped"}

\* The run has none of the keys the table reads.
Untracked(run) ==
    /\ DOMAIN run.metrics \cap
          {"training_score", "accuracy", "training_f1_score", "training_time"} = {}
    /\ "model_type" \notin DOMAIN run.params

\* C11: the table has one row per fetched run, in the order of the runs:
\* while parsing, the rows are those of the runs already visited; at the
\* end row n has the run_id of run n and no run is left out.
C11_OneRowPerRunInOrder ==
    /\ a_pc \in {"parse_loop", "done"} => Len(data) = a_r - 1
    /\ \A n \in 1..Len(data) : n <= Len(all_runs) /\ data[n].run_id = all_runs[n].run_id
    /\ a_pc = "done" => Len(data) = Len(all_runs)

\* C11 witness: four runs were parsed, a run without any metric ahead of a
\* run with metrics.
C11_Witness ==
    /\ a_pc = "done"
    /\ Len(data) = 4
    /\ all_runs[1].metrics = [k \in {} |-> 0]
    /\ "training_score" \in DOMAIN all_runs[2].metrics

\* C12: a row's accuracy is the run's training_score when it has one, whatever
\* else it has; otherwise its accuracy metric when it has one; otherwise 0.
C12_AccuracyPrefersTrainingScore ==
    \A n \in 1..Len(data) :
        n <= Len(all_runs) =>
            LET m == all_runs[n].metrics
            IN  /\ "training_score" \in DOMAIN m => data[n].accuracy = m["training_score"]
                /\ ("training_score" \notin DOMAIN m /\ "accuracy" \in DOMAIN m) =>
                      data[n].accuracy = m["accuracy"]
                /\ DOMAIN m \cap {"training_score", "accuracy"} = {} =>
                      data[n].accuracy = 0

\* C12 witness: a run with training_score 0 and accuracy 85 has its row.
C12_Witness ==
    /\ a_pc = "done"
    /\ Len(data) = 1
    /\ "training_score" \in DOMAIN all_runs[1].metrics
    /\ "accuracy" \in DOMAIN all_runs[1].metrics
    /\ all_runs[1].metrics["training_score"] = 0
    /\ all_runs[1].metrics["accuracy"] = 85
    /\ data[1].accuracy = 0

\* C13 as claimed: a run with none of the tracked keys has a row with
\* accuracy 0, f1_score 0, training_time 0, model_type "Unknown" and the
\* first 8 characters of the run id as run_name.
C13_UntrackedRunNamedByIdPrefix ==
    \A n \in 1..Len(data) :
        (n <= Len(all_runs) /\ Untracked(all_runs[n])) =>
            /\ data[n].accuracy = 0
            /\ data[n].f1_score = 0
            /\ data[n].training_time = 0
            /\ data[n].model_type = "Unknown"
            /\ Len(data[n].run_name) = 8
            /\ \A j \in 1..8 : data[n].run_name[j] = all_runs[n].run_id[j]

\* C13 as amended: such a row has accuracy 0, f1_score 0, training_time 0 and
\* model_type "Unknown"; its run_name is the run's name when the run has a
\* non-empty one, and the first 8 characters of the run id otherwise.
C13_UntrackedRunDefaults ==
    \A n \in 1..Len(data) :
        (n <= Len(all_runs) /\ Untracked(all_runs[n])) =>
            /\ data[n].accuracy = 0
            /\ data[n].f1_score = 0
            /\ data[n].training_time = 0
            /\ data[n].model_type = "Unknown"
            /\ all_runs[n].run_name # <<>> => data[n].run_name = all_runs[n].run_name
            /\ all_runs[n].run_name = <<>> =>
                  /\ Len(data[n].run_name) = 8
                  /\ \A j \in 1..8 : data[n].run_name[j] = all_runs[n].run_id[j]

\* C13 witness: an unnamed run holding only a metric and a param the table
\* does not read has its row, named by the id prefix.
C13_Witness ==
    /\ a_pc = "done"
    /\ Len(data) = 1
    /\ all_runs[1].run_name = <<>>
    /\ DOMAIN all_runs[1].metrics = {"training_log_loss"}
    /\ DOMAIN all_runs[1].params = {"kernel"}
    /\ data[1].run_name = <<"r", "1", "1", "a", "b", "c", "d", "e">>

\* C14: with experiment_id omitted the fetched runs are the runs of all
\* experiments concatenated in enumeration order, each experiment's runs in
\* the backend's order (while fetching, those of the experiments visited so
\* far); with an experiment_id they are the runs the backend lists for that
\* experiment, and none of another experiment.
C14_FetchOrderAndRestriction ==
    /\ (a_pc = "fetch_loop") =>
          all_runs \o RunsFrom(a_e) = RunsFrom(1)
    /\ (Fetched /\ a_experiment_id = "None") => all_runs = RunsFrom(1)
    /\ (Fetched /\ a_experiment_id # "None") =>
          /\ \A n \in 1..Len(all_runs) : all_runs[n].experiment_id = a_experiment_id
          /\ \A e \in 1..Len(store) :
                store[e].experiment_id = a_experiment_id => all_runs = store[e].runs
          /\ (\A e \in 1..Len(store) : store[e].experiment_id # a_experiment_id) =>
                all_runs = <<>>

\* C14 witness: two experiments of two runs each were fetched without an
\* experiment_id.
C14_Witness ==
    /\ Fetched
    /\ a_experiment_id = "None"
    /\ Len(store) = 2
    /\ Len(store[1].runs) = 2
    /\ Len(store[2].runs) = 2
    /\ Len(all_runs) = 4

\* C14 witness of the other case: the second experiment alone was fetched.
C14_WitnessOneExperiment ==
    /\ Fetched
    /\ a_experiment_id = "2"
    /\ Len(store) = 2
    /\ Len(store[1].runs) = 2
    /\ Len(all_runs) = 1

\* The status main() returns and the handler that ran, by what happened.
MainStatusRules ==
    /\ m_pc = "returned" => m_exit \in {<<0>>, <<1>>}
    /\ m_pc # "returned" => m_exit = <<>>
    /\ m_exit = <<0>> <=>
          (m_pc = "returned" /\ pc = "returned" /\ exc.type = "none"
           /\ m_handler = "none")
    /\ (m_pc = "returned" /\ exc.type = "ValueError") =>
          (m_exit = <<1>> /\ m_handler = "Configuration error")
    /\ (m_pc = "returned" /\ exc.type \notin {"none", "ValueError"}) =>
          (m_exit = <<1>> /\ m_handler = "Training failed")
    /\ (m_pc = "returned" /\ pc = "raised") => m_exit = <<1>>
    /\ m_pc \notin {"returned", "escaped"} => ENABLED NextMain

\* C15 as claimed: main() returns 0 exactly when setup and run_pipeline
\* completed, 1 through the ValueError handler on a ValueError and 1 through
\* the other handler on any other exception, and no exception escapes main().
C15_NoExceptionEscapesMain ==
    /\ MainStatusRules
    /\ m_pc # "escaped"

\* C15 as amended: the same status rules, and the one exception that leaves
\* main() is the SystemExit argparse raises in parse_args on a command line
\* it rejects; main() then returns no status.
C15_StatusAndOnlySystemExitEscapes ==
    /\ MainStatusRules
    /\ m_pc = "escaped" =>
          /\ exc.type = "SystemExit"
          /\ ~m_argv_ok
          /\ m_args = NoArgs
          /\ pc = "idle"

\* C15 witness: an unknown model name given on the command line ended main()
\* with status 1 through the ValueError handler, after a session was opened.
C15_Witness ==
    /\ m_pc = "returned"
    /\ m_exit = <<1>>
    /\ m_handler = "Configuration error"
    /\ exc.msg = "Unknown model"
    /\ Len(runs) = 2

\* The statements of a session, in the order of the source.
SessionSteps == <<"start_run", "get_model", "fit", "log_metric", "end_run">>

\* How many times a step occurs in a run's record.
Count(r, step) == Cardinality({n \in 1..Len(runs[r].steps) : runs[r].steps[n] = step})

\* How many times a metric was recorded on a run, and by whom.
Recorded(r, key) == {n \in 1..Len(runs[r].metrics) : runs[r].metrics[n].key = key}
CoreMetrics(r) == {n \in 1..Len(runs[r].metrics) : runs[r].metrics[n].by = "core"}

\* C16: in every session the steps taken are, in this order, start_run,
\* get_model, fit, log_metric, end_run (a failing step being followed by
\* end_run at once); log_metric is called exactly once in a session whose
\* fit succeeded and in no other, while that session is the open one; the
\* metric it records is training_time, recorded once when the call succeeds,
\* and the core records no other metric.
C16_SessionStepOrder ==
    /\ \A r \in 1..Len(runs) :
          LET st == runs[r].steps
              closed == runs[r].status # "RUNNING"
              body == IF closed THEN SubSeq(st, 1, Len(st) - 1) ELSE st
          IN  /\ Len(body) \in 1..4
              /\ body = SubSeq(SessionSteps, 1, Len(body))
              /\ closed <=> st[Len(st)] = "end_run"
              /\ Count(r, "end_run") <= 1
              /\ runs[r].fitted => Len(body) >= 3
              /\ (runs[r].fitted /\ closed) => Count(r, "log_metric") = 1
              /\ ~runs[r].fitted => Count(r, "log_metric") = 0
              /\ runs[r].status = "FINISHED" =>
                    (st = SessionSteps /\ Cardinality(Recorded(r, "training_time")) = 1)
              /\ Cardinality(Recorded(r, "training_time")) <= Count(r, "log_metric")
              /\ CoreMetrics(r) = Recorded(r, "training_time")
    /\ pc = "log_metric" =>
          /\ active_run_stack = <<Len(runs)>>
          /\ runs[Len(runs)].status = "RUNNING"
          /\ runs[Len(runs)].fitted
          /\ Recorded(Len(runs), "training_time") = {}

\* C16 witness: a session ran all five steps with autologging on, so that it
\* holds the autologged score and the core's training_time.
C16_Witness ==
    /\ Len(runs) = 2
    /\ runs[2].steps = SessionSteps
    /\ Len(runs[2].metrics) = 2
    /\ runs[2].metrics[1].by = "autolog"
    /\ runs[2].metrics[2].key = "training_time"

\* C17: when run_pipeline raises because resolving or fitting the model at
\* position i failed, sessions exist for the positions 1..i and for no
\* other, all are closed, those before i are FINISHED and carry
\* training_time, the one at i is FAILED and carries none, and the results
\* gathered before are still there.
C17_NoRollbackOnFailure ==
    (pc = "raised" /\ exc.msg \in {"Unknown model", "fit failed"}) =>
        /\ Len(runs) = i
        /\ active_run_stack = <<>>
        /\ \A r \in 1..Len(runs) : runs[r].status # "RUNNING"
        /\ \A r \in 1..(i - 1) :
              /\ runs[r].status = "FINISHED"
              /\ Cardinality(Recorded(r, "training_time")) = 1
              /\ runs[r].run_name = model_names[r]
        /\ runs[i].status = "FAILED"
        /\ Recorded(i, "training_time") = {}
        /\ Len(results) = i - 1

\* C17 witness: the fit of the third model raised after two models trained.
C17_Witness ==
    /\ pc = "raised"
    /\ exc.msg = "fit failed"
    /\ i = 3
    /\ Len(runs) = 3
    /\ Len(results) = 2

\* C18: the experiment is bound (and exists) and autologging is enabled
\* before the dataset is resolved, so a run_pipeline that raised for an
\* unknown dataset name or an invalid test fraction has left the backend
\* bound to experiment_name with autologging on, and opened no session.
C18_BackendChangedBeforeDatasetFailure ==
    /\ pc \in {"get_loader", "split"} =>
          (active_experiment = experiment_name /\ autolog)
    /\ (pc = "raised" /\ exc.msg \in {"Unknown loader", "test_size out of range"}) =>
          /\ active_experiment = experiment_name
          /\ experiment_name \in experiments
          /\ autolog
          /\ runs = <<>>
          /\ results = <<>>

\* C18 witness: an invalid test fraction ended an invocation for a
\* non-default experiment with models to train.
C18_Witness ==
    /\ pc = "raised"
    /\ exc.msg = "test_size out of range"
    /\ experiment_name = "Iris Classification"
    /\ active_experiment = "Iris Classification"
    /\ Len(model_names) = 2

====
